---------------------------- MODULE Spec2Model ----------------------------
(***************************************************************************)
(* A model of the BrainFuck engine: the parser/optimizer (parser/ast.rs),  *)
(* the tiered JIT target (runnable/jit_target.rs) and the driver           *)
(* (main.rs).                                                              *)
(*                                                                         *)
(* Source text is a sequence of one-character strings.  An IR node is a    *)
(* record [op, n, body]: op is the variant name, n its count (0 for the    *)
(* variants without one), body the loop body (<<>> for non-loops).         *)
(***************************************************************************)
EXTENDS Integers, Sequences, FiniteSets, TLC

VARIABLES
    src,        \* parser: the characters consumed so far (the input)
    output,     \* parser: AST::parse's `output`
    loops,      \* parser: AST::parse's `loops` stack of open bodies
    result,     \* parser: "parsing", "Ok" or an error message
    ast,        \* parser: the data of the AST returned (<<>> unless Ok)
    script,     \* the input generator's plan (run-length specification only)
    pc,         \* driver: where main is
    args,       \* driver: the command line and whether the file can be read
    env,        \* the host: page size, results of the memory calls, stdin
    runner,     \* driver: the Runnable chosen, "none" before
    new_result, \* driver: what JITTarget::new returned, "none" before
    buffer,     \* the byte buffer handed to make_executable
    target,     \* the top-level JITTarget
    stack,      \* the native call stack: exec and jit_callback frames
    mach,       \* the tape, the unread input and the output written
    hist        \* history: the callbacks entered, the fragments built and
                \* the runners whose run() was called

parserVars == <<src, output, loops, result, ast>>
jitVars == <<pc, args, env, runner, new_result, buffer, target, stack, mach,
            hist>>

(***************************************************************************)
(* Bounds                                                                  *)
(***************************************************************************)
MaxLen == 5
MaxNestLen == 8
MaxRun == 257

(***************************************************************************)
(* parser/ast.rs : ASTNode                                                 *)
(***************************************************************************)
U8 == 256

Incr(n) == [op |-> "Incr", n |-> n, body |-> <<>>]
Decr(n) == [op |-> "Decr", n |-> n, body |-> <<>>]
NextN(n) == [op |-> "Next", n |-> n, body |-> <<>>]
PrevN(n) == [op |-> "Prev", n |-> n, body |-> <<>>]
PrintN == [op |-> "Print", n |-> 0, body |-> <<>>]
ReadN == [op |-> "Read", n |-> 0, body |-> <<>>]
Loop(b) == [op |-> "Loop", n |-> 0, body |-> b]

\* A mutant: the add saturates at 255 instead of wrapping.
WrapU8Saturating(a, b) == IF a + b > U8 - 1 THEN U8 - 1 ELSE a + b

\* u8::wrapping_add
WrapU8(a, b) == (a + b) % U8

\* usize::wrapping_add.  The count of a Next/Prev node is at most the length
\* of the input, far below 2^64, so the reduction modulo 2^64 never applies
\* to a value this model can build (and 2^64 is outside TLC's integers).
WrapUsize(a, b) == a + b

Fusible == {"Incr", "Decr", "Next", "Prev"}

\* The match at ast.rs:96-106: the combined node.
Combine(prev, next) ==
    IF next.op \in {"Incr", "Decr"}
    THEN [next EXCEPT !.n = WrapU8(next.n, prev.n)]
    ELSE [next EXCEPT !.n = WrapUsize(next.n, prev.n)]

\* Whether the last node of the output and the next node are combined.
Combinable(out, next) ==
    /\ out # <<>>
    /\ next.op \in Fusible
    /\ out[Len(out)].op = next.op

RECURSIVE RunLengthFrom(_, _)
\* The while loop of shallow_run_length_optimize: `input` is drained from
\* the front into `out`.
RunLengthFrom(input, out) ==
    IF input = <<>> THEN out
    ELSE LET next_node == Head(input) IN
         IF Combinable(out, next_node)
         THEN RunLengthFrom(Tail(input),
                  Append(SubSeq(out, 1, Len(out) - 1),
                         Combine(out[Len(out)], next_node)))
         ELSE RunLengthFrom(Tail(input), Append(out, next_node))

shallow_run_length_optimize(input) == RunLengthFrom(input, <<>>)

(***************************************************************************)
(* parser/ast.rs : AST::parse                                              *)
(***************************************************************************)
ErrClose == "More ] than ["
ErrOpen == "More [ than ]"

Instr == {"+", "-", ">", "<", ".", ",", "[", "]"}
Alphabet == Instr \cup {"x"}
NestAlphabet == {"+", "-", "[", "]"}

\* The leaf arms of the match at ast.rs:36-42.
LeafNode(ch) ==
    CASE ch = "+" -> Incr(1)
      [] ch = "-" -> Decr(1)
      [] ch = ">" -> NextN(1)
      [] ch = "<" -> PrevN(1)
      [] ch = "." -> PrintN
      [] ch = "," -> ReadN

\* ast.rs:71: loops.back_mut().unwrap_or(&mut output).push_back(next_node)
PushNode(st, node) ==
    IF st.loops = <<>>
    THEN [st EXCEPT !.output = Append(@, node)]
    ELSE [st EXCEPT !.loops[Len(st.loops)] = Append(@, node)]

\* A mutant: a `]` with no open loop is skipped like a comment.
CloseLoopLenient(st) ==
    IF st.loops = <<>> THEN st
    ELSE LET current_loop == st.loops[Len(st.loops)]
             popped == [st EXCEPT !.loops = SubSeq(@, 1, Len(@) - 1)]
         IN  IF st.output = <<>> THEN popped
             ELSE PushNode(popped, Loop(shallow_run_length_optimize(current_loop)))

\* A mutant: the closed body is wrapped as it is, without run-length fusion.
CloseLoopRaw(st) ==
    IF st.loops = <<>> THEN [st EXCEPT !.result = ErrClose]
    ELSE LET current_loop == st.loops[Len(st.loops)]
             popped == [st EXCEPT !.loops = SubSeq(@, 1, Len(@) - 1)]
         IN  IF st.output = <<>> THEN popped
             ELSE PushNode(popped, Loop(current_loop))

\* A mutant: the loop is discarded when the body it would be appended to
\* (the innermost open body, or the output) is empty.
CloseLoopEnclosing(st) ==
    IF st.loops = <<>> THEN [st EXCEPT !.result = ErrClose]
    ELSE LET current_loop == st.loops[Len(st.loops)]
             popped == [st EXCEPT !.loops = SubSeq(@, 1, Len(@) - 1)]
             enclosing == IF popped.loops = <<>> THEN popped.output
                          ELSE popped.loops[Len(popped.loops)]
         IN  IF enclosing = <<>> THEN popped
             ELSE PushNode(popped, Loop(shallow_run_length_optimize(current_loop)))

\* A mutant: the test of ast.rs:61 is gone, every closed loop is appended.
CloseLoopNoElision(st) ==
    IF st.loops = <<>> THEN [st EXCEPT !.result = ErrClose]
    ELSE LET current_loop == st.loops[Len(st.loops)]
             popped == [st EXCEPT !.loops = SubSeq(@, 1, Len(@) - 1)]
         IN  PushNode(popped, Loop(shallow_run_length_optimize(current_loop)))

\* The ']' arm, ast.rs:47-66, followed by the push of ast.rs:71.
CloseLoop(st) ==
    IF st.loops = <<>> THEN [st EXCEPT !.result = ErrClose]
    ELSE LET current_loop == st.loops[Len(st.loops)]
             popped == [st EXCEPT !.loops = SubSeq(@, 1, Len(@) - 1)]
         IN  IF st.output = <<>> THEN popped
             ELSE PushNode(popped, Loop(shallow_run_length_optimize(current_loop)))

\* A mutant: a comment character leaves a node that does nothing.
ParseStepCommentNode(st, ch) ==
    CASE ch \in {"+", "-", ">", "<", ".", ","} -> PushNode(st, LeafNode(ch))
      [] ch = "[" -> [st EXCEPT !.loops = Append(@, <<>>)]
      [] ch = "]" -> CloseLoop(st)
      [] OTHER -> PushNode(st, NextN(0))

\* One iteration of the for loop over input.chars(), ast.rs:35-72.
ParseStep(st, ch) ==
    CASE ch \in {"+", "-", ">", "<", ".", ","} -> PushNode(st, LeafNode(ch))
      [] ch = "[" -> [st EXCEPT !.loops = Append(@, <<>>)]
      [] ch = "]" -> CloseLoop(st)
      [] OTHER -> st

\* A mutant: the final check looks at the output instead of the open loops.
ParseFinishOutput(st) ==
    IF st.output = <<>>
    THEN [st EXCEPT !.result = ErrOpen]
    ELSE [st EXCEPT !.result = "Ok",
                    !.ast = shallow_run_length_optimize(st.output)]

\* The end of input, ast.rs:74-83.
ParseFinish(st) ==
    IF st.loops # <<>>
    THEN [st EXCEPT !.result = ErrOpen]
    ELSE [st EXCEPT !.result = "Ok",
                    !.ast = shallow_run_length_optimize(st.output)]

\* ast.rs:32-33
ParseStart == [output |-> <<>>, loops |-> <<>>, result |-> "parsing", ast |-> <<>>]

RECURSIVE ParseFrom(_, _)
ParseFrom(st, s) ==
    IF st.result # "parsing" THEN st
    ELSE IF s = <<>> THEN ParseFinish(st)
    ELSE ParseFrom(ParseStep(st, Head(s)), Tail(s))

\* AST::parse as a function of the whole input.
Parse(s) == ParseFrom(ParseStart, s)

ParserState == [output |-> output, loops |-> loops, result |-> result, ast |-> ast]

SetParser(st) ==
    /\ output' = st.output
    /\ loops' = st.loops
    /\ result' = st.result
    /\ ast' = st.ast

(***************************************************************************)
(* The parser, one character per step, over every short input.            *)
(***************************************************************************)
InitParser ==
    /\ src = <<>>
    /\ output = <<>>
    /\ loops = <<>>
    /\ result = "parsing"
    /\ ast = <<>>

OverNest(s) == \A i \in 1..Len(s) : s[i] \in NestAlphabet

\* The next character of the input is read and handled.
ParseChar ==
    /\ result = "parsing"
    /\ \E ch \in Alphabet :
          /\ \/ Len(src) < MaxLen
             \/ Len(src) < MaxNestLen /\ OverNest(Append(src, ch))
          /\ src' = Append(src, ch)
          /\ SetParser(ParseStep(ParserState, ch))
    /\ UNCHANGED <<script, jitVars>>

\* The input ends.
ParseEnd ==
    /\ result = "parsing"
    /\ SetParser(ParseFinish(ParserState))
    /\ UNCHANGED <<src, script, jitVars>>

(***************************************************************************)
(* The IR semantics (the doc comments of ASTNode, ast.rs:6-20; the         *)
(* interpreter realises them): a machine is the tape, the data pointer,    *)
(* the unread input, the output written and a status.  The tape is kept as *)
(* the function of its non-zero cells.                                     *)
(***************************************************************************)
TapeLen == 30000
EOFByte == 255

Cell(m) == IF m.ptr \in DOMAIN m.tape THEN m.tape[m.ptr] ELSE 0

InTape(m) == m.ptr >= 0 /\ m.ptr < TapeLen

SetCell(m, v) ==
    IF v = 0
    THEN [m EXCEPT !.tape = [i \in (DOMAIN m.tape) \ {m.ptr} |-> m.tape[i]]]
    ELSE [m EXCEPT !.tape = (m.ptr :> v) @@ m.tape]

\* The effect of one non-loop instruction on the machine.  An access outside
\* the tape is outside the defined behaviour: the machine stops as "oob".
ApplyLeaf(op, n, m) ==
    CASE op \in {"Next"} -> [m EXCEPT !.ptr = @ + n]
      [] op \in {"Prev"} -> [m EXCEPT !.ptr = @ - n]
      [] OTHER ->
           IF ~InTape(m) THEN [m EXCEPT !.status = "oob"]
           ELSE CASE op = "Incr" -> SetCell(m, (Cell(m) + n) % U8)
                  [] op = "Decr" -> SetCell(m, (Cell(m) + U8 - n) % U8)
                  [] op = "Print" -> [m EXCEPT !.out = Append(@, Cell(m))]
                  [] op = "Read" ->
                       IF m.inp = <<>> THEN SetCell(m, EOFByte)
                       ELSE [SetCell(m, Head(m.inp)) EXCEPT !.inp = Tail(@)]

\* The loop test: the current cell is read.
TestCell(m) == IF InTape(m) THEN m ELSE [m EXCEPT !.status = "oob"]

\* The machine `run` starts from, jit_target.rs:194: an all-zero tape.
StartMachine(input, fuel) ==
    [tape |-> <<>>, ptr |-> 0, inp |-> input, out |-> <<>>,
     status |-> "run", fuel |-> fuel]

RECURSIVE RunNodes(_, _), RunLoop(_, _)
\* The direct semantics of a body: its nodes in order, a Loop while the
\* current cell is non-zero.  Every instruction executed and every loop
\* iteration entered costs one unit of fuel; the walk stops as "fuel" when
\* none is left.
RunNodes(nodes, m) ==
    IF nodes = <<>> \/ m.status # "run" THEN m
    ELSE LET node == Head(nodes) IN
         IF node.op = "Loop"
         THEN RunNodes(Tail(nodes), RunLoop(node.body, m))
         ELSE IF m.fuel = 0 THEN [m EXCEPT !.status = "fuel"]
         ELSE RunNodes(Tail(nodes),
                       ApplyLeaf(node.op, node.n, [m EXCEPT !.fuel = @ - 1]))

RunLoop(body, m) ==
    LET t == TestCell(m) IN
    IF t.status # "run" \/ Cell(t) = 0 THEN t
    ELSE IF t.fuel = 0 THEN [t EXCEPT !.status = "fuel"]
    ELSE RunLoop(body, RunNodes(body, [t EXCEPT !.fuel = @ - 1]))

NoScript ==
    [pre |-> <<>>, c |-> "x", post |-> <<>>, fed |-> 0, stage |-> "none",
     todo |-> <<>>]

(***************************************************************************)
(* code_gen: the emitted code.  The byte buffer is kept as a sequence of   *)
(* instructions [op, n]; a jump's n is its displacement from the next      *)
(* instruction.                                                            *)
(***************************************************************************)
Ins(op, n) == [op |-> op, n |-> n]

\* code_gen::incr, decr, next, prev, print, read
leaf(node) == <<Ins(node.op, node.n)>>

\* code_gen::aot_loop: head test, body, jump back to the head.
aot_loop(body_bytes) ==
    <<Ins("jz", Len(body_bytes) + 1)>> \o body_bytes
        \o <<Ins("jmp", 0 - (Len(body_bytes) + 2))>>

\* code_gen::jit_loop: while the cell is non-zero, call the callback with
\* the promise id and load the pointer it returns.
jit_loop(promise_id) ==
    <<Ins("jz", 2), Ins("callback", promise_id), Ins("jmp", 0 - 3)>>

\* code_gen::wrapper: prologue, body, epilogue returning the tape pointer.
wrapper(body_bytes) ==
    <<Ins("prologue", 0)>> \o body_bytes \o <<Ins("ret", 0)>>

(***************************************************************************)
(* runnable/jit_target.rs : executable memory                              *)
(***************************************************************************)
RetOpcode == 195

\* A mutant: the ceiling of the division, which leaves an exact multiple as
\* it is.
int_ceil_exact(numerator, denominator) ==
    ((numerator + denominator - 1) \div denominator) * denominator

\* jit_target.rs:38-40
int_ceil(numerator, denominator) == (numerator \div denominator + 1) * denominator

\* jit_target.rs:43-66: a region of `size` bytes filled with 0xc3, the
\* source copied over its prefix; the Vec's length is the source's.
make_executable(source, page_size) ==
    LET size == int_ceil(Len(source), page_size) IN
    [len |-> Len(source),
     mem |-> [i \in 1..size |->
                 IF i <= Len(source) THEN source[i] ELSE Ins("c3", RetOpcode)]]

(***************************************************************************)
(* runnable/jit_target.rs : JITPromise, JITTarget and its compilation      *)
(***************************************************************************)
NoBytes == [len |-> 0, mem |-> <<>>]
NoTarget == [bytes |-> NoBytes, loops |-> <<>>]

\* A mutant: the body registered has lost its first node.
DeferredTruncated(nodes) ==
    [kind |-> "Deferred", nodes |-> Tail(nodes), target |-> NoTarget]

\* jit_target.rs:73 and 153: the promise holds a clone of the body.
Deferred(nodes) == [kind |-> "Deferred", nodes |-> nodes, target |-> NoTarget]
Compiled(jit_target) == [kind |-> "Compiled", nodes |-> <<>>, target |-> jit_target]

DeferThreshold == 22

\* A mutant: a body of exactly 22 nodes is deferred too.
ShouldDeferFrom22(nodes) == Len(nodes) >= DeferThreshold

\* The guard of jit_target.rs:130: nodes.len() > 0x16
ShouldDefer(nodes) == Len(nodes) > DeferThreshold

\* A mutant: the id emitted is the table's length after the push.
defer_loop_len(nodes, promises) ==
    LET pushed == Append(promises, Deferred(nodes)) IN
    [bytes |-> jit_loop(Len(pushed)), loops |-> pushed]

\* jit_target.rs:150-158
defer_loop(nodes, promises) ==
    LET pushed == Append(promises, Deferred(nodes)) IN
    [bytes |-> jit_loop(Len(pushed) - 1), loops |-> pushed]

RECURSIVE ShallowCompileFrom(_, _), compile_loop(_, _)
\* The for loop of shallow_compile, jit_target.rs:122-135; acc holds the
\* bytes emitted so far and the promise table.
ShallowCompileFrom(nodes, acc) ==
    IF nodes = <<>> THEN acc
    ELSE LET node == Head(nodes)
             emitted ==
                 IF node.op = "Loop"
                 THEN IF ShouldDefer(node.body)
                      THEN defer_loop(node.body, acc.loops)
                      ELSE compile_loop(node.body, acc.loops)
                 ELSE [bytes |-> leaf(node), loops |-> acc.loops]
         IN  ShallowCompileFrom(Tail(nodes),
                 [bytes |-> acc.bytes \o emitted.bytes, loops |-> emitted.loops])

\* jit_target.rs:141-147
compile_loop(nodes, promises) ==
    LET body == ShallowCompileFrom(nodes, [bytes |-> <<>>, loops |-> promises]) IN
    [bytes |-> aot_loop(body.bytes), loops |-> body.loops]

\* jit_target.rs:119-138
shallow_compile(nodes, promises) ==
    ShallowCompileFrom(nodes, [bytes |-> <<>>, loops |-> promises])

\* JITTarget::new, jit_target.rs:86-96
JITTargetNew(nodes, page_size) ==
    LET c == shallow_compile(nodes, <<>>) IN
    [bytes |-> make_executable(wrapper(c.bytes), page_size), loops |-> c.loops]

\* A mutant: the fragment is the body alone, without a loop around it.
new_fragment_body(nodes, page_size) ==
    LET c == shallow_compile(nodes, <<>>) IN
    [bytes |-> make_executable(wrapper(c.bytes), page_size), loops |-> c.loops]

\* jit_target.rs:104-114
new_fragment(nodes, page_size) ==
    LET c == compile_loop(nodes, <<>>) IN
    [bytes |-> make_executable(wrapper(c.bytes), page_size), loops |-> c.loops]

(***************************************************************************)
(* The driver and the JIT are not started in the parser's specifications.  *)
(***************************************************************************)
NoArgs == [load_ok |-> TRUE, flag_debug |-> FALSE, flag_int |-> FALSE]
NoEnv ==
    [arch |-> "x86_64", page_size |-> 1, memalign_ok |-> TRUE,
     mprotect_ok |-> TRUE, stdin |-> <<>>]
NoMach == [tape |-> <<>>, ptr |-> 0, inp |-> <<>>, out |-> <<>>]
NoHist == [called |-> <<>>, built |-> <<>>, runs |-> <<>>]

IdleJit ==
    /\ pc = "idle"
    /\ args = NoArgs
    /\ env = NoEnv
    /\ runner = "none"
    /\ new_result = "none"
    /\ buffer = <<>>
    /\ target = NoTarget
    /\ stack = <<>>
    /\ mach = NoMach
    /\ hist = NoHist

(***************************************************************************)
(* The parser on inputs that hold one long run of a single character:      *)
(* `pre`, then the character `c` repeated, then `post`.                    *)
(***************************************************************************)
RunChars == {"+", "-", ">", "<"}

RunContexts ==
    { [pre |-> <<>>, post |-> <<>>],
      [pre |-> <<",">>, post |-> <<".">>],
      [pre |-> <<"-">>, post |-> <<">">>],
      [pre |-> <<".", "[">>, post |-> <<"]">>],
      [pre |-> <<"+", "[", "<", "[">>, post |-> <<"]", "]">>] }

InitRun ==
    /\ InitParser
    /\ IdleJit
    /\ \E ctx \in RunContexts, c \in RunChars :
          script = [pre |-> ctx.pre, c |-> c, post |-> ctx.post,
                    fed |-> 0, stage |-> "pre", todo |-> ctx.pre]

Feed(ch) ==
    /\ src' = Append(src, ch)
    /\ SetParser(ParseStep(ParserState, ch))
    /\ UNCHANGED jitVars

\* The next character before the run is read.
FeedPre ==
    /\ result = "parsing"
    /\ script.stage = "pre"
    /\ IF script.todo = <<>>
       THEN /\ script' = [script EXCEPT !.stage = "run"]
            /\ UNCHANGED <<parserVars, jitVars>>
       ELSE /\ Feed(Head(script.todo))
            /\ script' = [script EXCEPT !.todo = Tail(@)]

\* One more character of the run is read.
FeedRun ==
    /\ result = "parsing"
    /\ script.stage = "run"
    /\ script.fed < MaxRun
    /\ Feed(script.c)
    /\ script' = [script EXCEPT !.fed = @ + 1]

\* The run ends: the characters after it are read.
FeedPost ==
    /\ result = "parsing"
    /\ script.stage \in {"run", "post"}
    /\ script.fed >= 1
    /\ IF script.stage = "run"
       THEN /\ script' = [script EXCEPT !.stage = "post", !.todo = script.post]
            /\ UNCHANGED <<parserVars, jitVars>>
       ELSE /\ script.todo # <<>>
            /\ Feed(Head(script.todo))
            /\ script' = [script EXCEPT !.todo = Tail(@)]

(***************************************************************************)
(* runnable/jit_target.rs : execution.  The native stack holds exec frames *)
(* (a code buffer running, with its instruction pointer and the tape       *)
(* pointer register r10) and jit_callback frames between them.  A frame's  *)
(* `self` says where its JITTarget lives: base 0 is the top-level target,  *)
(* base k the local `new_target` of the jit_callback frame stack[k]; path  *)
(* descends through Compiled promises from there.  A frame's `iters` is    *)
(* history: how many times this exec of a fragment has passed the test at  *)
(* the head of the fragment's code and entered what follows it.            *)
(***************************************************************************)
RootRef == [base |-> 0, path |-> <<>>]

\* JITTarget::exec, jit_target.rs:161-169: the buffer is entered at its
\* start with the tape pointer, self and the callback.
exec(self, mem_ptr) ==
    [kind |-> "exec", self |-> self, ip |-> 1, r10 |-> mem_ptr, id |-> 0,
     deferred |-> FALSE, new_target |-> NoTarget, ret |-> 0, iters |-> 0]

\* The locals of jit_callback, jit_target.rs:173-176.
CallbackFrame(self, loop_index, mem_ptr, deferred, new_target) ==
    [kind |-> "cb", self |-> self, ip |-> 0, r10 |-> mem_ptr, id |-> loop_index,
     deferred |-> deferred, new_target |-> new_target, ret |-> 0, iters |-> 0]

RECURSIVE Descend(_, _)
Descend(t, path) ==
    IF path = <<>> THEN t
    ELSE Descend(t.loops[Head(path) + 1].target, Tail(path))

\* The JITTarget a self-pointer points to.
TargetAt(ref) ==
    Descend(IF ref.base = 0 THEN target ELSE stack[ref.base].new_target, ref.path)

RECURSIVE SetPromiseFirst(_, _, _, _)
\* A mutant: the first entry of the table is replaced, whatever the id.
SetPromiseFirst(t, path, id, val) ==
    IF path = <<>> THEN [t EXCEPT !.loops[1] = val]
    ELSE [t EXCEPT !.loops[Head(path) + 1].target =
                      SetPromiseFirst(@, Tail(path), id, val)]

RECURSIVE SetPromise(_, _, _, _)
\* t with loops[id] of the target at `path` replaced.
SetPromise(t, path, id, val) ==
    IF path = <<>> THEN [t EXCEPT !.loops[id + 1] = val]
    ELSE [t EXCEPT !.loops[Head(path) + 1].target = SetPromise(@, Tail(path), id, val)]

RECURSIVE AbsPath(_)
\* The place of a target in the tree of fragments, from the top-level
\* target: the promise ids on the way to it.
AbsPath(ref) ==
    IF ref.base = 0 THEN ref.path
    ELSE AbsPath(stack[ref.base].self) \o <<stack[ref.base].id>> \o ref.path

Top == stack[Len(stack)]
Running == pc = "jit" /\ stack # <<>>
InCode == Running /\ Top.kind = "exec"
CurIns == TargetAt(Top.self).bytes.mem[Top.ip]

LeafOps == {"Incr", "Decr", "Next", "Prev", "Print", "Read"}

\* The machine as the running code sees it: r10 is the data pointer.
Core(f) ==
    [tape |-> mach.tape, ptr |-> f.r10, inp |-> mach.inp, out |-> mach.out,
     status |-> "run", fuel |-> 0]

\* The prologue of the wrapper: the arguments are moved to their registers.
ExecPrologue ==
    /\ InCode
    /\ CurIns.op = "prologue"
    /\ stack' = [stack EXCEPT ![Len(stack)].ip = @ + 1]
    /\ UNCHANGED <<parserVars, script, buffer, pc, args, env, runner, new_result,
                   target, mach, hist>>

\* One emitted leaf instruction runs.
ExecLeaf ==
    /\ InCode
    /\ CurIns.op \in LeafOps
    /\ LET m == ApplyLeaf(CurIns.op, CurIns.n, Core(Top)) IN
       IF m.status = "oob"
       THEN /\ pc' = "ub"
            /\ UNCHANGED <<stack, mach>>
       ELSE /\ pc' = pc
            /\ mach' = [mach EXCEPT !.tape = m.tape, !.inp = m.inp, !.out = m.out]
            /\ stack' = [stack EXCEPT ![Len(stack)].ip = @ + 1,
                                      ![Len(stack)].r10 = m.ptr]
    /\ UNCHANGED <<parserVars, script, buffer, args, env, runner, new_result,
                   target, hist>>

\* The exec frame f is at the first instruction after the prologue of a
\* fragment's code.
AtFragmentHead(f) == f.ip = 2 /\ AbsPath(f.self) # <<>>

\* The head test of aot_loop and jit_loop.
ExecJz ==
    /\ InCode
    /\ CurIns.op = "jz"
    /\ LET m == TestCell(Core(Top)) IN
       IF m.status = "oob"
       THEN /\ pc' = "ub"
            /\ UNCHANGED stack
       ELSE /\ pc' = pc
            /\ stack' = [stack EXCEPT
                            ![Len(stack)].ip =
                               IF Cell(m) = 0 THEN @ + 1 + CurIns.n ELSE @ + 1,
                            ![Len(stack)].iters =
                               IF Cell(m) # 0 /\ AtFragmentHead(Top)
                               THEN @ + 1 ELSE @]
    /\ UNCHANGED <<parserVars, script, buffer, args, env, runner, new_result,
                   target, mach, hist>>

\* The jump back to the head of a loop.
ExecJmp ==
    /\ InCode
    /\ CurIns.op = "jmp"
    /\ stack' = [stack EXCEPT ![Len(stack)].ip = @ + 1 + CurIns.n]
    /\ UNCHANGED <<parserVars, script, buffer, pc, args, env, runner, new_result,
                   target, mach, hist>>

\* jit_callback up to its call of exec, jit_target.rs:173-180 and 183-184:
\* the code of jit_loop calls it with self, the promise id and r10.
JitCallback ==
    /\ InCode
    /\ CurIns.op = "callback"
    /\ LET self == Top.self
           loop_index == CurIns.n
           mem_ptr == Top.r10
           table == TargetAt(self).loops
       IN  IF loop_index + 1 \notin 1..Len(table)
           THEN \* self.loops[loop_index] panics
                /\ pc' = "panic"
                /\ UNCHANGED <<stack, hist>>
           ELSE LET jit_promise == table[loop_index + 1]
                    where == AbsPath(self) \o <<loop_index>>
                IN  /\ pc' = pc
                    /\ IF jit_promise.kind = "Deferred"
                       THEN LET new_target ==
                                   new_fragment(jit_promise.nodes, env.page_size)
                            IN  /\ stack' = stack \o
                                     <<CallbackFrame(self, loop_index, mem_ptr,
                                                     TRUE, new_target),
                                       exec([base |-> Len(stack) + 1, path |-> <<>>],
                                            mem_ptr)>>
                                /\ hist' = [hist EXCEPT
                                               !.called = Append(@, where),
                                               !.built = Append(@, where)]
                       ELSE /\ stack' = stack \o
                                 <<CallbackFrame(self, loop_index, mem_ptr,
                                                 FALSE, NoTarget),
                                   exec([base |-> self.base,
                                         path |-> Append(self.path, loop_index)],
                                        mem_ptr)>>
                            /\ hist' = [hist EXCEPT !.called = Append(@, where)]
    /\ UNCHANGED <<parserVars, script, buffer, args, env, runner, new_result,
                   target, mach>>

\* The epilogue of the wrapper: exec returns r10.  The return of the
\* top-level exec ends run (jit_target.rs:197) and main.
ExecRet ==
    /\ InCode
    /\ CurIns.op = "ret"
    /\ IF Len(stack) = 1
       THEN /\ stack' = <<>>
            /\ mach' = [mach EXCEPT !.ptr = Top.r10]
            /\ pc' = "exit0"
       ELSE /\ stack' = [SubSeq(stack, 1, Len(stack) - 1)
                            EXCEPT ![Len(stack) - 1].ret = Top.r10]
            /\ UNCHANGED <<mach, pc>>
    /\ UNCHANGED <<parserVars, script, buffer, args, env, runner, new_result,
                   target, hist>>

\* A mutant: the promise is left as it was.
StoredPromiseNever(f, old) == old

\* jit_target.rs:181: what the promise entry holds when jit_callback ends.
StoredPromise(f, old) == IF f.deferred THEN Compiled(f.new_target) ELSE old

\* A mutant: the pointer passed in is returned.
CallbackReturnMemPtr(f) == f.r10

\* jit_target.rs:188: the pointer jit_callback returns.
CallbackReturnPtr(f) == f.ret

\* jit_callback after exec has returned, jit_target.rs:180-188; the code of
\* jit_loop loads the returned pointer and jumps back to its test.
JitCallbackReturn ==
    /\ Running
    /\ Top.kind = "cb"
    /\ LET f == Top
           caller == Len(stack) - 1
           stored == StoredPromise(f, TargetAt(f.self).loops[f.id + 1])
           popped == [SubSeq(stack, 1, caller)
                         EXCEPT ![caller].r10 = CallbackReturnPtr(f),
                                ![caller].ip = @ + 1]
       IN  IF f.self.base = 0
           THEN /\ target' = SetPromise(target, f.self.path, f.id, stored)
                /\ stack' = popped
           ELSE /\ target' = target
                /\ stack' = [popped EXCEPT ![f.self.base].new_target =
                                SetPromise(@, f.self.path, f.id, stored)]
    /\ UNCHANGED <<parserVars, script, buffer, pc, args, env, runner, new_result,
                   mach, hist>>

(***************************************************************************)
(* main.rs : the driver                                                    *)
(***************************************************************************)
RefFuel == 2000

RECURSIVE Rep(_, _)
Rep(s, k) == IF k = 0 THEN <<>> ELSE s \o Rep(s, k - 1)

\* k nodes that leave the tape and the pointer as they were.
Pad(k) ==
    IF k % 2 = 0 THEN Rep(<<">", "<">>, k \div 2)
    ELSE <<".">> \o Rep(<<">", "<">>, (k - 1) \div 2)

\* A loop body of k nodes that counts the current cell down.
Body(k) == <<"-">> \o Pad(k - 1)
Small == Body(DeferThreshold)
Big == Body(DeferThreshold + 1)
Wrap(s) == <<"[">> \o s \o <<"]">>
\* A body of DeferThreshold + 1 nodes that holds a loop of as many.
Nested == <<"-", ">", "+">> \o Wrap(Big) \o <<"<">> \o Pad(DeferThreshold - 4)

\* The programs the driver is run on.
Sources ==
    { <<"+", ".">>,
      <<"[", "[", "]">>,
      <<"[", "]", "]">>,
      <<"<", "+">>,
      <<"+", "+">> \o Wrap(Small),
      <<"+", "+">> \o Wrap(Big),
      <<"+", ">">> \o Wrap(Big) \o <<"<">> \o Wrap(Big),
      <<"+", "+">> \o Wrap(<<"-", ">", "+">> \o Wrap(Big) \o <<"<">>),
      <<"+", "+">> \o Wrap(Nested),
      <<"+", "+">> \o Wrap(<<"-", ">", "+", "+">> \o Wrap(Nested) \o <<"<">>),
      <<",", "+">> \o Wrap(Big) \o <<".">>,
      <<"+">> \o Wrap(<<"-", ">">> \o Pad(DeferThreshold - 1)) \o <<"+">>,
      <<"+", "+">> \o Wrap(Small) \o <<"+">> \o Wrap(Big) }

Stdins == {<<>>, <<1>>, <<0, 7>>}
PageSizes == {4}

\* The build and the results of the host's memory calls.  A build for another
\* architecture makes no memory call (jit_target.rs:98-102).
Hosts ==
    { [arch |-> "x86_64", memalign_ok |-> ma, mprotect_ok |-> mp] :
        ma \in BOOLEAN, mp \in BOOLEAN }
    \cup { [arch |-> "other", memalign_ok |-> TRUE, mprotect_ok |-> TRUE] }

Reads(s) == \E i \in 1..Len(s) : s[i] = ","

ArgSets ==
    { [load_ok |-> l, flag_debug |-> f[1], flag_int |-> f[2]] :
        l \in BOOLEAN, f \in {<<FALSE, FALSE>>, <<TRUE, FALSE>>, <<FALSE, TRUE>>} }

InitMain ==
    /\ \E s \in Sources :
          /\ src = s
          /\ \E input \in (IF Reads(s) THEN Stdins ELSE {<<>>}),
                page \in PageSizes, host \in Hosts :
                env = [arch |-> host.arch, page_size |-> page,
                       memalign_ok |-> host.memalign_ok,
                       mprotect_ok |-> host.mprotect_ok, stdin |-> input]
    /\ args \in ArgSets
    /\ output = <<>>
    /\ loops = <<>>
    /\ result = "parsing"
    /\ ast = <<>>
    /\ script = NoScript
    /\ pc = "start"
    /\ runner = "none"
    /\ new_result = "none"
    /\ buffer = <<>>
    /\ target = NoTarget
    /\ stack = <<>>
    /\ mach = NoMach
    /\ hist = NoHist

\* read_program, main.rs:49 and 81-96: a failure ends the process.
MainLoad ==
    /\ pc = "start"
    /\ pc' = IF args.load_ok THEN "loaded" ELSE "exit1"
    /\ UNCHANGED <<parserVars, script, buffer, args, env, runner, new_result,
                   target, stack, mach, hist>>

\* AST::parse in main, main.rs:50-54: an error ends the process.
MainParse ==
    /\ pc = "loaded"
    /\ SetParser(Parse(src))
    /\ pc' = IF Parse(src).result = "Ok" THEN "parsed" ELSE "exit1"
    /\ UNCHANGED <<src, script, args, env, runner, new_result, buffer,
                   target, stack, mach, hist>>

\* main.rs:56-60: the IR is printed and main returns.
MainDebug ==
    /\ pc = "parsed"
    /\ args.flag_debug
    /\ pc' = "exit0"
    /\ UNCHANGED <<parserVars, script, buffer, args, env, runner, new_result,
                   target, stack, mach, hist>>

\* A mutant: an error of JITTarget::new does not change the runner.
SelectRunnerNoFallback(flag_int, constructed) ==
    IF flag_int THEN "Fucker" ELSE "JITTarget"

\* main.rs:62-73: the Runnable that is boxed, from --int and the result of
\* JITTarget::new ("none" when it was not called).
SelectRunner(flag_int, constructed) ==
    IF flag_int THEN "Fucker"
    ELSE IF constructed = "Ok" THEN "JITTarget"
    ELSE "Fucker"

\* main.rs:62-73 with JITTarget::new and make_executable.  The results of
\* posix_memalign and mprotect are not looked at (jit_target.rs:50-55):
\* after a failed posix_memalign the pointer is uninitialised and the
\* memset through it either faults or writes somewhere; after a failed
\* mprotect the region is written but cannot be executed.  The x86_64
\* JITTarget::new (jit_target.rs:86-96) has no path that returns Err; the
\* one for every other architecture (jit_target.rs:98-102) only returns Err.
MainSelect ==
    /\ pc = "parsed"
    /\ ~args.flag_debug
    /\ \/ /\ args.flag_int
          /\ runner' = SelectRunner(TRUE, "none")
          /\ pc' = "selected"
          /\ UNCHANGED <<new_result, buffer, target>>
       \/ /\ ~args.flag_int
          /\ env.arch = "x86_64"
          /\ buffer' = wrapper(shallow_compile(ast, <<>>).bytes)
          /\ target' = JITTargetNew(ast, env.page_size)
          /\ new_result' = "Ok"
          /\ runner' = SelectRunner(FALSE, "Ok")
          /\ pc' = "selected"
       \/ /\ ~args.flag_int
          /\ env.arch # "x86_64"
          /\ new_result' = "Err"
          /\ runner' = SelectRunner(FALSE, "Err")
          /\ pc' = "selected"
          /\ UNCHANGED <<buffer, target>>
       \/ /\ ~args.flag_int
          /\ env.arch = "x86_64"
          /\ ~env.memalign_ok
          /\ pc' = "crashed"
          /\ UNCHANGED <<new_result, buffer, target, runner>>
    /\ UNCHANGED <<parserVars, script, args, env, stack, mach, hist>>

\* runnable.run(), main.rs:75.  The interpreter walks the IR; the JIT
\* target's run (jit_target.rs:193-198) enters its code on a zeroed tape,
\* which faults when the region could not be made executable.
MainRun ==
    /\ pc = "selected"
    /\ hist' = [hist EXCEPT !.runs = Append(@, runner)]
    /\ \/ /\ runner = "Fucker"
          /\ LET r == RunNodes(ast, StartMachine(env.stdin, RefFuel)) IN
             /\ mach' = [tape |-> r.tape, ptr |-> r.ptr, inp |-> r.inp, out |-> r.out]
             /\ pc' = CASE r.status = "run" -> "exit0"
                        [] r.status = "oob" -> "ub"
                        [] OTHER -> "running"
          /\ UNCHANGED stack
       \/ /\ runner = "JITTarget"
          /\ env.memalign_ok /\ env.mprotect_ok
          /\ mach' = [tape |-> <<>>, ptr |-> 0, inp |-> env.stdin, out |-> <<>>]
          /\ stack' = <<exec(RootRef, 0)>>
          /\ pc' = "jit"
       \/ /\ runner = "JITTarget"
          /\ ~(env.memalign_ok /\ env.mprotect_ok)
          /\ pc' = "crashed"
          /\ UNCHANGED <<stack, mach>>
    /\ UNCHANGED <<parserVars, script, buffer, args, env, runner, new_result, target>>

vars == <<src, output, loops, result, ast, script,
          pc, args, env, runner, new_result, buffer, target, stack, mach, hist>>

InitParse == InitParser /\ script = NoScript /\ IdleJit
NextParse == ParseChar \/ ParseEnd
SpecParse == InitParse /\ [][NextParse]_vars

Next ==
    \/ MainLoad \/ MainParse \/ MainDebug \/ MainSelect \/ MainRun
    \/ ExecPrologue \/ ExecLeaf \/ ExecJz \/ ExecJmp \/ ExecRet
    \/ JitCallback \/ JitCallbackReturn
Spec == InitMain /\ [][Next]_vars

NextRun == FeedPre \/ FeedRun \/ FeedPost \/ ParseEnd
SpecRun == InitRun /\ [][NextRun]_vars

(***************************************************************************)
(* make_executable on its own: every short buffer, every small page size,  *)
(* every result of the host's memory calls.                                *)
(***************************************************************************)
MaxBuf == 6
MaxPage == 4

\* The bytes a buffer is made of: an emitted instruction, and a byte that
\* happens to be the return opcode.
BufBytes == {Ins("Incr", 1), Ins("c3", RetOpcode)}

Buffers == UNION { [1..n -> BufBytes] : n \in 0..MaxBuf }

InitMem ==
    /\ InitParser
    /\ script = NoScript
    /\ pc = "emitted"
    /\ args = NoArgs
    /\ buffer \in Buffers
    /\ \E page \in 1..MaxPage, host \in Hosts :
          /\ host.arch = "x86_64"
          /\ env = [arch |-> host.arch, page_size |-> page,
                    memalign_ok |-> host.memalign_ok,
                    mprotect_ok |-> host.mprotect_ok, stdin |-> <<>>]
    /\ runner = "none"
    /\ new_result = "none"
    /\ target = NoTarget
    /\ stack = <<>>
    /\ mach = NoMach
    /\ hist = NoHist

\* make_executable returns, jit_target.rs:43-66.  The results of the host
\* calls are not looked at; after a failed posix_memalign the writes go
\* through an uninitialised pointer and may as well land.
MakeExecutable ==
    /\ pc = "emitted"
    /\ target' = [target EXCEPT !.bytes = make_executable(buffer, env.page_size)]
    /\ pc' = "executable"
    /\ UNCHANGED <<parserVars, script, buffer, args, env, runner, new_result,
                   stack, mach, hist>>

\* The memset through the pointer a failed posix_memalign left
\* uninitialised faults, jit_target.rs:48-56.
MakeExecutableFault ==
    /\ pc = "emitted"
    /\ ~env.memalign_ok
    /\ pc' = "crashed"
    /\ UNCHANGED <<parserVars, script, buffer, args, env, runner, new_result,
                   target, stack, mach, hist>>

NextMem == MakeExecutable \/ MakeExecutableFault
SpecMem == InitMem /\ [][NextMem]_vars

(***************************************************************************)
(* Bracket structure of an input, counted directly on the text.            *)
(***************************************************************************)
RECURSIVE Depth(_)
\* The number of `[` minus the number of `]`.
Depth(s) ==
    IF s = <<>> THEN 0
    ELSE Depth(SubSeq(s, 1, Len(s) - 1))
         + (CASE s[Len(s)] = "[" -> 1 [] s[Len(s)] = "]" -> -1 [] OTHER -> 0)

Prefix(s, k) == SubSeq(s, 1, k)

\* No `]` comes before its `[`.
NeverNegative(s) == \A k \in 0..Len(s) : Depth(Prefix(s, k)) >= 0

WellNested(s) == NeverNegative(s) /\ Depth(s) = 0

(***************************************************************************)
(* C2.  Parsing fails on every input whose brackets are not well nested:   *)
(* with "More ] than [" exactly at the first `]` that has no open `[`      *)
(* before it, with "More [ than ]" when the input ends with a `[` still    *)
(* open, and without an AST in both cases.                                 *)
(***************************************************************************)
C2_BalanceRejection ==
    /\ result = ErrClose <=>
          /\ src # <<>>
          /\ src[Len(src)] = "]"
          /\ NeverNegative(Prefix(src, Len(src) - 1))
          /\ Depth(src) = -1
    /\ result = "parsing" => NeverNegative(src)
    /\ (result \notin {"parsing", ErrClose} /\ Depth(src) > 0) => result = ErrOpen
    /\ result = "Ok" => WellNested(src)
    /\ result \in {ErrClose, ErrOpen} => ast = <<>>

\* The `]` of `[]]` that has no open `[` was just read.
C2_Witness == result = ErrClose /\ src = <<"[", "]", "]">> /\ ast = <<>>

(***************************************************************************)
(* C3.  Every input whose brackets are balanced and well nested parses to  *)
(* Ok, the empty input and inputs made only of loops included.             *)
(***************************************************************************)
C3_ParseTotality ==
    (result # "parsing" /\ WellNested(src)) => result = "Ok"

C3_Witness == result = "Ok" /\ src = <<"[", "[", "]", "]">>

(***************************************************************************)
(* C4.  In a returned AST no body, at any depth, holds two adjacent nodes  *)
(* that are both Incr, both Decr, both Next or both Prev.                  *)
(***************************************************************************)
RECURSIVE NormalForm(_)
NormalForm(nodes) ==
    /\ \A i \in 1..(Len(nodes) - 1) :
          ~(nodes[i].op \in Fusible /\ nodes[i].op = nodes[i + 1].op)
    /\ \A i \in 1..Len(nodes) : NormalForm(nodes[i].body)

C4_RunLengthNormalForm == result = "Ok" => NormalForm(ast)

\* A fused run after a discarded loop, and a kept loop whose body was fused.
C4_Witness ==
    /\ result = "Ok"
    /\ src = <<"[", "]", "+", "+", "[", "-", "-", "]">>
    /\ ast = <<Incr(2), Loop(<<Decr(2)>>)>>

(***************************************************************************)
(* C6.  Empty-prefix loop elision is sound: from an all-zero tape the IR   *)
(* returned by AST::parse and the IR of the same source with no loop       *)
(* discarded give the same output and the same final tape, on every input  *)
(* stream.                                                                 *)
(***************************************************************************)
ElideFuel == 40
ElideInputs == {<<>>, <<1>>, <<0, 2>>}

\* The ']' arm without the elision of ast.rs:61-63: the loop is always kept.
CloseLoopKeep(st) ==
    IF st.loops = <<>> THEN [st EXCEPT !.result = ErrClose]
    ELSE LET current_loop == st.loops[Len(st.loops)]
             popped == [st EXCEPT !.loops = SubSeq(@, 1, Len(@) - 1)]
         IN  PushNode(popped, Loop(shallow_run_length_optimize(current_loop)))

RECURSIVE ParseKeepFrom(_, _)
ParseKeepFrom(st, s) ==
    IF st.result # "parsing" THEN st
    ELSE IF s = <<>> THEN ParseFinish(st)
    ELSE ParseKeepFrom(IF Head(s) = "]" THEN CloseLoopKeep(st)
                       ELSE ParseStep(st, Head(s)), Tail(s))

\* The IR of a source with no loop discarded.
ParseKeep(s) == ParseKeepFrom(ParseStart, s)

C6_ElisionSound ==
    result = "Ok" =>
        \A input \in ElideInputs :
            RunNodes(ast, StartMachine(input, ElideFuel))
              = RunNodes(ParseKeep(src).ast, StartMachine(input, ElideFuel))

\* `[+]+`: the leading loop was discarded, and the run ended with cell 0 = 1.
C6_Witness ==
    /\ result = "Ok"
    /\ src = <<"[", "+", "]", "+">>
    /\ ast = <<Incr(1)>>
    /\ ParseKeep(src).ast = <<Loop(<<Incr(1)>>), Incr(1)>>
    /\ RunNodes(ast, StartMachine(<<>>, ElideFuel)).tape = (0 :> 1)

(***************************************************************************)
(* C5.  A maximal run of n >= 1 identical characters from `+ - > <` in one *)
(* body parses to exactly one node of the matching variant, with count     *)
(* n mod 256 for Incr/Decr and n for Next/Prev (n is below the machine     *)
(* word); a count of 0 is kept.                                            *)
(***************************************************************************)
RunCount(c, n) == IF c \in {"+", "-"} THEN n % 256 ELSE n

RunNode(c, n) == [LeafNode(c) EXCEPT !.n = RunCount(c, n)]

\* The AST of pre, c repeated n times, post, written out per context.
ExpectedRunAst(pre, c, n) ==
    CASE pre = <<>> -> <<RunNode(c, n)>>
      [] pre = <<",">> -> <<ReadN, RunNode(c, n), PrintN>>
      [] pre = <<"-">> ->
           IF c = "-" THEN <<RunNode(c, n + 1), NextN(1)>>
           ELSE IF c = ">" THEN <<Decr(1), RunNode(c, n + 1)>>
           ELSE <<Decr(1), RunNode(c, n), NextN(1)>>
      [] pre = <<".", "[">> -> <<PrintN, Loop(<<RunNode(c, n)>>)>>
      [] OTHER ->
           IF c = "<" THEN <<Incr(1), Loop(<<RunNode(c, 1), Loop(<<RunNode(c, n)>>)>>)>>
           ELSE <<Incr(1), Loop(<<PrevN(1), Loop(<<RunNode(c, n)>>)>>)>>

RunComplete == script.stage = "post" /\ script.todo = <<>> /\ result = "Ok"

C5_RunLengthFusion ==
    RunComplete => ast = ExpectedRunAst(script.pre, script.c, script.fed)

\* 256 consecutive `+`: the single node Incr(0).
C5_Witness ==
    /\ RunComplete
    /\ script.pre = <<>> /\ script.c = "+" /\ script.fed = 256
    /\ Len(src) = 256
    /\ ast = <<Incr(0)>>

(***************************************************************************)
(* C1.  A run of the JIT target (top level = body; loops of at most 22     *)
(* nodes inlined; larger loops through jit_loop, jit_callback and lazily   *)
(* built fragments) ends with the output, in order, and the tape that the  *)
(* direct IR semantics give on the same input stream; it leaves the tape   *)
(* only where the IR semantics do, and no callback misses its promise.     *)
(***************************************************************************)
C1_JitEquivalence ==
    LET r == RunNodes(ast, StartMachine(env.stdin, RefFuel)) IN
    /\ (pc = "exit0" /\ runner = "JITTarget") =>
          /\ r.status = "run"
          /\ mach.out = r.out
          /\ mach.tape = r.tape
          /\ mach.ptr = r.ptr
          /\ mach.inp = r.inp
    /\ (pc = "ub" /\ runner = "JITTarget") => r.status = "oob"
    /\ pc # "panic"

\* A run that read input, entered a deferred loop and wrote output has ended.
C1_Witness ==
    /\ pc = "exit0"
    /\ runner = "JITTarget"
    /\ env.stdin = <<1>>
    /\ hist.built = <<<<0>>>>
    /\ mach.out = <<0>>
    /\ target.loops[1].kind = "Compiled"

(***************************************************************************)
(* C7.  A failure of allocation, alignment or protection change while the  *)
(* JIT target is constructed surfaces as an error from JITTarget::new, and *)
(* the driver then runs the interpreter.                                   *)
(***************************************************************************)
C7_FailureFallsBack ==
    ( /\ ~args.flag_int
      /\ ~args.flag_debug
      /\ ~(env.memalign_ok /\ env.mprotect_ok)
      /\ pc \notin {"start", "loaded", "parsed", "exit1"} )
    => (new_result = "Err" /\ runner = "Fucker")

(***************************************************************************)
(* C8.  Every promise-table entry of every target changes at most once,    *)
(* from Deferred to Compiled: a Compiled entry stays Compiled with the     *)
(* same fragment code, no entry disappears, and no deferred body is built  *)
(* into a fragment twice.                                                  *)
(***************************************************************************)
RECURSIVE Entries(_, _)
\* The promise entries of a target and of the fragments below it, each with
\* its place in the tree of fragments.
Entries(t, prefix) ==
    UNION { {[path |-> prefix \o <<i - 1>>, kind |-> t.loops[i].kind,
              code |-> t.loops[i].target.bytes]}
            \cup (IF t.loops[i].kind = "Compiled"
                  THEN Entries(t.loops[i].target, prefix \o <<i - 1>>)
                  ELSE {})
            : i \in 1..Len(t.loops) }

\* The frames of jit_callback that hold a fragment not yet stored.
Building == {k \in 1..Len(stack) : stack[k].kind = "cb" /\ stack[k].deferred}

AllEntries ==
    Entries(target, <<>>)
    \cup UNION { Entries(stack[k].new_target,
                         AbsPath(stack[k].self) \o <<stack[k].id>>) : k \in Building }

NoDuplicates(s) == \A i, j \in 1..Len(s) : s[i] = s[j] => i = j

PromiseStep ==
    /\ \A e \in AllEntries :
          \E e2 \in AllEntries' :
             /\ e2.path = e.path
             /\ e.kind = "Compiled" => (e2.kind = "Compiled" /\ e2.code = e.code)
    /\ \A e1, e2 \in AllEntries' : e1.path = e2.path => e1 = e2
    /\ NoDuplicates(hist.built')

C8_PromiseOnce == [][PromiseStep]_vars

\* A compiled fragment is running again, and inside it a nested compiled one.
C8_Witness ==
    /\ pc = "jit"
    /\ Len(stack) = 5
    /\ ~stack[2].deferred /\ ~stack[4].deferred
    /\ Top.self = [base |-> 0, path |-> <<0, 0>>]
    /\ hist.built = <<<<0>>, <<0, 0>>>>
    /\ Len(hist.called) > 4

(***************************************************************************)
(* C10.  shallow_compile defers a Loop(body) exactly when body has more    *)
(* than 22 nodes: a loop of 22 nodes is inlined and adds no promise, a     *)
(* loop of 23 appends one Deferred entry holding the body and emits a      *)
(* jit_loop with the index of that entry.                                  *)
(***************************************************************************)
RECURSIVE DeferredBodies(_)
\* The bodies of more than 22 nodes, in walk order, that are reached
\* without entering such a body.
DeferredBodies(nodes) ==
    IF nodes = <<>> THEN <<>>
    ELSE LET h == Head(nodes) IN
         (IF h.op # "Loop" THEN <<>>
          ELSE IF Len(h.body) > 22 THEN <<h.body>>
          ELSE DeferredBodies(h.body))
         \o DeferredBodies(Tail(nodes))

RECURSIVE InlinedLoops(_)
\* The number of loops of at most 22 nodes reached the same way.
InlinedLoops(nodes) ==
    IF nodes = <<>> THEN 0
    ELSE LET h == Head(nodes) IN
         (IF h.op # "Loop" \/ Len(h.body) > 22 THEN 0
          ELSE 1 + InlinedLoops(h.body))
         + InlinedLoops(Tail(nodes))

IsCallback(ins) == ins.op = "callback"
IsJz(ins) == ins.op = "jz"

\* Target t is what compiling `nodes` gives; `own` counts the loop a
\* fragment wraps its body in.
TargetShape(t, nodes, own) ==
    LET want == DeferredBodies(nodes)
        calls == SelectSeq(t.bytes.mem, IsCallback)
    IN  /\ Len(t.loops) = Len(want)
        /\ \A i \in 1..Len(want) :
              t.loops[i].kind = "Deferred" => t.loops[i] = Deferred(want[i])
        /\ Len(calls) = Len(want)
        /\ \A i \in 1..Len(calls) : calls[i].n = i - 1
        /\ Len(SelectSeq(t.bytes.mem, IsJz))
             = InlinedLoops(nodes) + Len(want) + own

C10_DeferPolicy ==
    /\ new_result = "Ok" => TargetShape(target, ast, 0)
    /\ \A k \in Building :
          TargetShape(stack[k].new_target,
                      TargetAt(stack[k].self).loops[stack[k].id + 1].nodes, 1)

\* A program with a loop of 22 nodes and a loop of 23 has been compiled.
C10_Witness ==
    /\ pc = "selected"
    /\ new_result = "Ok"
    /\ Len(ast) = 4
    /\ Len(ast[2].body) = 22 /\ Len(ast[4].body) = 23
    /\ target.loops = <<Deferred(ast[4].body)>>
    /\ SelectSeq(target.bytes.mem, IsCallback) = <<Ins("callback", 0)>>

(***************************************************************************)
(* C9.  As claimed: the promise of a loop of more than 22 nodes is         *)
(* Deferred after JITTarget::new and Compiled after run has returned.      *)
(***************************************************************************)
C9_CompiledAfterRun ==
    /\ (pc = "selected" /\ runner = "JITTarget") =>
          \A i \in 1..Len(target.loops) : target.loops[i].kind = "Deferred"
    /\ (pc = "exit0" /\ runner = "JITTarget") =>
          \A i \in 1..Len(target.loops) : target.loops[i].kind = "Compiled"

(***************************************************************************)
(* C9, amended.  Every loop of more than 22 nodes outside other such loops *)
(* has a promise in the top-level table, Deferred after JITTarget::new;    *)
(* after run has returned every promise, of the top-level table and of the *)
(* fragments built, is Compiled if its loop was entered during the run     *)
(* (the callback was called for it) and still Deferred if it was not.      *)
(***************************************************************************)
Called(path) == \E k \in 1..Len(hist.called) : hist.called[k] = path

C9_CompiledIfEntered ==
    /\ (pc \in {"selected", "exit0"} /\ runner = "JITTarget") =>
          Len(target.loops) = Len(DeferredBodies(ast))
    /\ (pc = "selected" /\ runner = "JITTarget") =>
          \A i \in 1..Len(target.loops) : target.loops[i].kind = "Deferred"
    /\ (pc = "exit0" /\ runner = "JITTarget") =>
          \A e \in AllEntries :
             /\ Called(e.path) => e.kind = "Compiled"
             /\ ~Called(e.path) => e.kind = "Deferred"

\* Of two large loops the first was never entered, the second was.
C9_Witness ==
    /\ pc = "exit0"
    /\ runner = "JITTarget"
    /\ Len(target.loops) = 2
    /\ target.loops[1].kind = "Deferred"
    /\ target.loops[2].kind = "Compiled"
    /\ hist.called = <<<<1>>>>

(***************************************************************************)
(* C11.  The driver calls run() on at most one runner and at most once.    *)
(* Nothing is run when loading or parsing fails (exit status 1) or when    *)
(* --debug is set (the IR is printed, exit status 0).  Otherwise, once     *)
(* main has reached runnable.run(), exactly one run has been made: of the  *)
(* interpreter when --int is set or JITTarget::new returned Err, of the    *)
(* JIT target when JITTarget::new returned Ok.                             *)
(***************************************************************************)
LoadedAndParsed == args.load_ok /\ Parse(src).result = "Ok"

\* main is past runnable.run() being called.
RunCalled == pc \in {"jit", "exit0", "ub", "panic", "running", "crashed"}
             /\ runner # "none"

C11_OneRunner ==
    /\ Len(hist.runs) <= 1
    /\ pc = "exit1" <=> (pc \notin {"start", "loaded"} /\ ~LoadedAndParsed)
    /\ pc = "exit1" => hist.runs = <<>>
    /\ args.flag_debug => (hist.runs = <<>> /\ runner = "none"
                             /\ pc \in {"start", "loaded", "parsed", "exit0", "exit1"})
    /\ (pc = "exit0" /\ ~args.flag_debug) => RunCalled
    /\ pc = "selected" =>
          /\ hist.runs = <<>>
          /\ args.flag_int => (runner = "Fucker" /\ new_result = "none")
          /\ ~args.flag_int => new_result \in {"Ok", "Err"}
          /\ new_result = "Err" => runner = "Fucker"
          /\ new_result = "Ok" => runner = "JITTarget"
    /\ RunCalled =>
          hist.runs = <<IF args.flag_int \/ new_result = "Err"
                        THEN "Fucker" ELSE "JITTarget">>
    /\ ~RunCalled => hist.runs = <<>>

\* JITTarget::new returned Err and the interpreter ran the program to its end.
C11_Witness ==
    /\ pc = "exit0"
    /\ ~args.flag_int /\ ~args.flag_debug
    /\ new_result = "Err"
    /\ hist.runs = <<"Fucker">>
    /\ mach.out = <<1>>

(***************************************************************************)
(* C12.  The body held by a Deferred entry is the body of its loop in the  *)
(* IR, so the fragment built at the first entry of the loop has the code   *)
(* and the initial promise table (all Deferred) of a fragment compiled     *)
(* from that body at program start.  The code of a fragment, once built,   *)
(* stays what it was built as, and every invocation of a promise, the      *)
(* first and the later ones, runs that code.                               *)
(***************************************************************************)
RECURSIVE BodyAt(_, _)
\* The body of the loop whose promise is at `path` in the tree of fragments,
\* read from the IR.
BodyAt(nodes, path) ==
    IF path = <<>> THEN nodes
    ELSE BodyAt(DeferredBodies(nodes)[Head(path) + 1], Tail(path))

\* The fragment a compilation at program start gives for the loop at `path`.
FragmentAtStart(path) == new_fragment(BodyAt(ast, path), env.page_size)

RECURSIVE TableFaithful(_, _)
\* Every entry of t's table and of the fragments below it holds the body of
\* its loop, or a fragment with the code compiled from that body.
TableFaithful(t, prefix) ==
    \A i \in 1..Len(t.loops) :
       LET path == prefix \o <<i - 1>>
           e == t.loops[i]
       IN  IF e.kind = "Deferred"
           THEN e.nodes = BodyAt(ast, path)
           ELSE /\ e.target.bytes = FragmentAtStart(path).bytes
                /\ Len(e.target.loops) = Len(FragmentAtStart(path).loops)
                /\ TableFaithful(e.target, path)

\* The callback has built its fragment and the fragment has not yet run.
FreshlyBuilt(k) ==
    /\ k \in Building
    /\ k + 1 = Len(stack)
    /\ stack[k + 1].ip = 1

C12_DeferredIdempotent ==
    pc = "jit" =>
       /\ TableFaithful(target, <<>>)
       /\ \A k \in Building :
             LET path == AbsPath(stack[k].self) \o <<stack[k].id>> IN
             /\ stack[k].new_target.bytes = FragmentAtStart(path).bytes
             /\ TableFaithful(stack[k].new_target, path)
             /\ FreshlyBuilt(k) => stack[k].new_target = FragmentAtStart(path)
       /\ \A k \in 1..Len(stack) :
             stack[k].kind = "exec" =>
                TargetAt(stack[k].self).bytes =
                   IF AbsPath(stack[k].self) = <<>>
                   THEN JITTargetNew(ast, env.page_size).bytes
                   ELSE FragmentAtStart(AbsPath(stack[k].self)).bytes

\* The fragment of a loop nested in a deferred loop, built in an earlier
\* iteration and stored, is entered again.
C12_Witness ==
    /\ pc = "jit"
    /\ Len(stack) = 5
    /\ stack[4].kind = "cb" /\ ~stack[4].deferred
    /\ Top.self.path # <<>>
    /\ Top.ip = 1
    /\ Len(AbsPath(Top.self)) = 2
    /\ Len(SelectSeq(hist.called, LAMBDA w : w = AbsPath(Top.self))) >= 2
    /\ hist.built = <<<<0>>, <<0, 0>>>>

CloseStep == src' = Append(src, "]") /\ loops # <<>>

\* The body the closed loop would be appended to: the innermost body still
\* open once the closed one is popped, or the output.
EnclosingBody == IF Len(loops) = 1 THEN output ELSE loops[Len(loops) - 1]

ClosedLoopNode == Loop(shallow_run_length_optimize(loops[Len(loops)]))

\* The popped body is discarded: nothing else changes.
LoopDiscarded ==
    /\ loops' = SubSeq(loops, 1, Len(loops) - 1)
    /\ output' = output
    /\ result' = "parsing"

\* The popped body is wrapped in a Loop and appended to the enclosing body.
LoopAppended ==
    /\ result' = "parsing"
    /\ IF Len(loops) = 1
       THEN /\ loops' = <<>>
            /\ output' = Append(output, ClosedLoopNode)
       ELSE /\ output' = output
            /\ loops' = [SubSeq(loops, 1, Len(loops) - 1)
                            EXCEPT ![Len(loops) - 1] = Append(@, ClosedLoopNode)]

(***************************************************************************)
(* C14.  As claimed: at a `]` the popped body is discarded if and only if  *)
(* the immediately enclosing body is empty at that moment, and is          *)
(* otherwise appended to it as a Loop, at every nesting depth.             *)
(***************************************************************************)
C14_EnclosingRule ==
    [][CloseStep =>
          IF EnclosingBody = <<>> THEN LoopDiscarded ELSE LoopAppended]_vars

(***************************************************************************)
(* C14, amended.  At a `]` the popped body is discarded if and only if the *)
(* top-level output is empty at that moment, whatever the nesting depth    *)
(* and whatever the enclosing body holds; otherwise it is wrapped in a     *)
(* Loop and appended to the immediately enclosing body.                    *)
(***************************************************************************)
C14_TopLevelRule ==
    [][CloseStep =>
          IF output = <<>> THEN LoopDiscarded ELSE LoopAppended]_vars

\* `+[[-]`: the inner loop was closed while its enclosing body was empty and
\* the output was not; it was kept.
C14_Witness ==
    /\ src = <<"+", "[", "[", "-", "]">>
    /\ result = "parsing"
    /\ output = <<Incr(1)>>
    /\ loops = << <<Loop(<<Decr(1)>>)>> >>

(***************************************************************************)
(* C15.  As claimed: one entry into jit_callback, on the Deferred path and *)
(* on the Compiled path, executes the body of the deferred loop exactly    *)
(* once; the body is repeated only by the test jit_loop emits around the   *)
(* callback.                                                               *)
(***************************************************************************)
\* The exec frames that run the code of a fragment.
FragmentFrames ==
    {k \in 1..Len(stack) : stack[k].kind = "exec" /\ AbsPath(stack[k].self) # <<>>}

InsAt(k) == TargetAt(stack[k].self).bytes.mem[stack[k].ip]

C15_OneBodyPerEntry ==
    pc = "jit" =>
       \A k \in FragmentFrames :
          /\ stack[k].iters <= 1
          /\ InsAt(k).op = "ret" => stack[k].iters = 1

(***************************************************************************)
(* C15, amended.  One entry into jit_callback, on either path, runs the    *)
(* whole deferred loop: the fragment is the body wrapped in its own        *)
(* while-non-zero loop (new_fragment uses compile_loop), so the body is    *)
(* executed once or more, until the current cell is zero, before the       *)
(* callback returns.  The test jit_loop emits around the callback then     *)
(* finds the cell zero: the callback is entered once every time the loop   *)
(* is reached with a non-zero cell, not once per iteration.                *)
(***************************************************************************)
\* The byte the frame's data pointer is at.
CellOf(f) == IF f.r10 \in DOMAIN mach.tape THEN mach.tape[f.r10] ELSE 0

\* The frame is at the back jump of a jit_loop: its callback has returned.
AfterCallback(k) ==
    /\ stack[k].kind = "exec"
    /\ k = Len(stack)
    /\ stack[k].ip > 1
    /\ InsAt(k).op = "jmp"
    /\ TargetAt(stack[k].self).bytes.mem[stack[k].ip - 1].op = "callback"

C15_WholeLoopPerEntry ==
    pc = "jit" =>
       /\ \A k \in FragmentFrames :
             /\ stack[k].ip > 2 => stack[k].iters >= 1
             /\ InsAt(k).op = "ret" => CellOf(stack[k]) = 0
       /\ \A k \in 1..Len(stack) : AfterCallback(k) => CellOf(stack[k]) = 0

\* `++[ 23 nodes ]`: the only callback entry of the run is about to return,
\* after two executions of the body.
C15_Witness ==
    /\ pc = "jit"
    /\ Len(stack) = 3
    /\ Top.kind = "exec"
    /\ CurIns.op = "ret"
    /\ Top.iters = 2
    /\ hist.called = <<<<0>>>>

(***************************************************************************)
(* C16.  Characters other than the eight instruction characters never      *)
(* affect parsing: the parse of an input ends with the same AST, or the    *)
(* same error, as the parse of the input with those characters removed.    *)
(***************************************************************************)
IsInstr(ch) == ch \in {"+", "-", "<", ">", ".", ",", "[", "]"}

\* The input without its comment characters.
Strip(s) == SelectSeq(s, IsInstr)

HasComment(s) == \E k \in 1..Len(s) : ~IsInstr(s[k])

\* What AST::parse returns if the input is the characters read so far.
Outcome == IF result = "parsing" THEN ParseFinish(ParserState) ELSE ParserState

C16_CommentsIgnored ==
    /\ Outcome.result = Parse(Strip(src)).result
    /\ Outcome.ast = Parse(Strip(src)).ast

\* `+x+`: the two `+` around the comment were fused.
C16_Witness ==
    /\ src = <<"+", "x", "+">>
    /\ HasComment(src)
    /\ result = "Ok"
    /\ ast = <<Incr(2)>>
    /\ Parse(<<"+", "+">>).ast = <<Incr(2)>>

(***************************************************************************)
(* C17.  Once a target, top-level or fragment, is constructed, the number  *)
(* of entries of its promise table never changes, and an entry changes     *)
(* only when jit_callback(id) on that target stores into it: entry id and  *)
(* no other.  Code that runs, nested callbacks included, leaves every      *)
(* other entry of every table as it was; entries appear only with the      *)
(* construction of their target.                                           *)
(***************************************************************************)
RECURSIVE Slots(_, _)
\* The entries of t's table and of the tables of the fragments below it:
\* the place, and what the entry itself holds (the body, or the fragment's
\* code and the size of its table).
Slots(t, prefix) ==
    UNION { {[path |-> prefix \o <<i - 1>>, kind |-> t.loops[i].kind,
              nodes |-> t.loops[i].nodes, code |-> t.loops[i].target.bytes,
              size |-> Len(t.loops[i].target.loops)]}
            \cup (IF t.loops[i].kind = "Compiled"
                  THEN Slots(t.loops[i].target, prefix \o <<i - 1>>)
                  ELSE {})
            : i \in 1..Len(t.loops) }

AllSlots ==
    Slots(target, <<>>)
    \cup UNION { Slots(stack[k].new_target,
                       AbsPath(stack[k].self) \o <<stack[k].id>>) : k \in Building }

\* The sizes of the tables of the targets that exist.
TableSizes ==
    {[path |-> <<>>, size |-> Len(target.loops)]}
    \cup {[path |-> e.path, size |-> e.size] : e \in {x \in AllSlots : x.kind = "Compiled"}}
    \cup {[path |-> AbsPath(stack[k].self) \o <<stack[k].id>>,
           size |-> Len(stack[k].new_target.loops)] : k \in Building}

\* jit_callback on the target at the end of its path is storing into `path`.
StoringInto(path) ==
    /\ Running
    /\ Top.kind = "cb"
    /\ path = AbsPath(Top.self) \o <<Top.id>>

\* The step constructs the target whose table holds `path`.
Constructing(path) ==
    \/ pc = "parsed" /\ Len(path) = 1
    \/ /\ hist.built' # hist.built
       /\ SubSeq(path, 1, Len(path) - 1) = hist.built'[Len(hist.built')]

TableFrameStep ==
    /\ \A e \in AllSlots :
          /\ \E e2 \in AllSlots' : e2.path = e.path
          /\ \A e2 \in AllSlots' :
                (e2.path = e.path /\ e2 # e) => StoringInto(e.path)
    /\ \A e2 \in AllSlots' :
          (\A e \in AllSlots : e.path # e2.path) => Constructing(e2.path)
    /\ \A s1 \in TableSizes :
          \A s2 \in TableSizes' : s2.path = s1.path => s2.size = s1.size \/ pc = "parsed"

C17_TableFrame == [][TableFrameStep]_vars

\* A nested callback has stored its fragment in the table of the fragment
\* it ran in; the top-level entry is still the Deferred one.
C17_Witness ==
    /\ pc = "jit"
    /\ Building = {2}
    /\ Len(stack[2].new_target.loops) = 1
    /\ stack[2].new_target.loops[1].kind = "Compiled"
    /\ Len(target.loops) = 1
    /\ target.loops[1].kind = "Deferred"
    /\ hist.built = <<<<0>>, <<0, 0>>>>

(***************************************************************************)
(* C18.  Every promise id passed to jit_callback is a valid index of the   *)
(* table of the target it is called on, and the entry found there is the   *)
(* promise of the loop that called.  The code of a target runs with that   *)
(* target as self: the top-level code with the top-level target, the code  *)
(* entered from jit_callback with the fragment of the promise looked up.   *)
(* The table of a target holds the loops deferred from its body (those     *)
(* inside inlined loops included, those inside deferred bodies not), and   *)
(* the ids in its code are 0, 1, ..., len - 1, each at one jit_loop site.  *)
(***************************************************************************)
ExecFrames == {k \in 1..Len(stack) : stack[k].kind = "exec"}

\* The frame is about to call jit_callback.
AtCallback(k) == stack[k].kind = "exec" /\ InsAt(k).op = "callback"

C18_ValidPromiseIds ==
    /\ pc # "panic"
    /\ pc = "jit" =>
          /\ stack[1].kind = "exec" /\ stack[1].self = RootRef
          /\ \A k \in 1..Len(stack) :
                (stack[k].kind = "cb" /\ k < Len(stack)) =>
                   /\ stack[k + 1].kind = "exec"
                   /\ AbsPath(stack[k + 1].self)
                        = AbsPath(stack[k].self) \o <<stack[k].id>>
          /\ \A k \in ExecFrames :
                LET t == TargetAt(stack[k].self)
                    calls == SelectSeq(t.bytes.mem, IsCallback)
                IN  /\ Len(calls) = Len(t.loops)
                    /\ \A j \in 1..Len(calls) : calls[j].n = j - 1
                    /\ Len(t.loops)
                         = Len(DeferredBodies(BodyAt(ast, AbsPath(stack[k].self))))
          /\ \A k \in ExecFrames :
                AtCallback(k) =>
                   LET t == TargetAt(stack[k].self)
                       id == InsAt(k).n
                       path == AbsPath(stack[k].self) \o <<id>>
                   IN  /\ id >= 0 /\ id < Len(t.loops)
                       /\ IF t.loops[id + 1].kind = "Deferred"
                          THEN t.loops[id + 1].nodes = BodyAt(ast, path)
                          ELSE t.loops[id + 1].target.bytes
                                 = FragmentAtStart(path).bytes

\* The code of a fragment is about to call jit_callback with id 0 of its
\* own table, while the top-level code waits in its callback.
C18_Witness ==
    /\ pc = "jit"
    /\ Len(stack) = 3
    /\ AtCallback(3)
    /\ InsAt(3).n = 0
    /\ AbsPath(Top.self) = <<0>>
    /\ Len(TargetAt(Top.self).loops) = 1

(***************************************************************************)
(* C19.  The first top-level node of an AST that AST::parse returns is     *)
(* never a Loop.  While the top-level output is empty every loop closed,   *)
(* at any depth, is discarded; the output grows only by one node at its    *)
(* end and only when no loop is left open; and a source whose instruction  *)
(* characters are all inside brackets parses to the empty AST.             *)
(***************************************************************************)
LeadingLoop(nodes) == nodes # <<>> /\ nodes[1].op = "Loop"

\* Every instruction character of s other than the brackets is inside a
\* loop.
OnlyLoops(s) ==
    \A k \in 1..Len(s) :
       s[k] \in {"+", "-", "<", ">", ".", ","} => Depth(Prefix(s, k)) > 0

NoLeadingLoopStep ==
    /\ ~LeadingLoop(output')
    /\ result' = "Ok" => ~LeadingLoop(ast')
    /\ (CloseStep /\ output = <<>>) => (LoopDiscarded /\ output' = <<>>)
    /\ output' # output =>
          /\ loops' = <<>>
          /\ Len(output') = Len(output) + 1
          /\ SubSeq(output', 1, Len(output)) = output
    /\ (result' = "Ok" /\ OnlyLoops(src')) => ast' = <<>>

C19_NoLeadingLoop == [][NoLeadingLoopStep]_vars

\* `[[+]][-]`: a source made only of loops, one of them nested, has been
\* parsed to the empty AST.
C19_Witness ==
    /\ src = <<"[", "[", "+", "]", "]", "[", "-", "]">>
    /\ OnlyLoops(src)
    /\ result = "Ok"
    /\ output = <<>>
    /\ ast = <<>>

=============================================================================
